---- MODULE Spec2Model ----
(***************************************************************************)
(* Model of audiobook_converter.py: the text normaliser (clean_text), the  *)
(* segmenter (split_text_into_chunks) and the conversion pipeline          *)
(* (main, convert, text_to_speech, merge_audio_files).                     *)
(*                                                                         *)
(* A text is a sequence of characters, each character a string.  The       *)
(* characters that have no ASCII form are written by their code point      *)
(* ("U+2019"); a line break is "\n" and a tab is "\t".                     *)
(***************************************************************************)
EXTENDS Integers, Sequences, FiniteSets, TLC

VARIABLES
    pc,               \* the position of the running operation
    raw_text,         \* clean_text: its argument
    cleaned_text,     \* clean_text: its return value
    text,             \* split_text_into_chunks: its argument text
    chunk_size,       \* split_text_into_chunks: its argument chunk_size
    chunks,           \* split_text_into_chunks: its return value
    pdf_exists,       \* main: os.path.exists(args.pdf_path)
    merge_files,      \* convert: argument (not args.no_merge)
    cleanup_parts,    \* convert: argument (not args.keep_parts)
    PYDUB_AVAILABLE,  \* module flag set by the optional import
    text_chunks,      \* convert: the chunks handed to text_to_speech
    i,                \* text_to_speech: the loop index (0 before the loop)
    audio_files,      \* text_to_speech: the list it builds and returns
    attempts,         \* the calls received by the speech backend, in order
    disk,             \* the files present in the output directory
    final_file,       \* convert: its result
    combined,         \* merge_audio_files: the audio exported to the merged file
    j,                \* convert: the index of the cleanup loop
    error,            \* the exception convert raised ("" when none)
    exit_status       \* the status the process exited with (-1 while running)

vars == <<pc, raw_text, cleaned_text, text, chunk_size, chunks, pdf_exists,
          merge_files, cleanup_parts, PYDUB_AVAILABLE, text_chunks, i,
          audio_files, attempts, disk, final_file, combined, j, error,
          exit_status>>

cleanVars == <<raw_text, cleaned_text>>
splitVars == <<text, chunk_size, chunks>>
convertVars == <<pdf_exists, merge_files, cleanup_parts, PYDUB_AVAILABLE,
                 text_chunks, i, audio_files, attempts, disk, final_file,
                 combined, j, error, exit_status>>

(***************************************************************************)
(* Python string operations, as the interpreter computes them.             *)
(***************************************************************************)

\* The characters str.split() and str.strip() treat as whitespace.
Whitespace == {" ", "\n", "\t"}

\* sep.join(parts)
RECURSIVE Join(_, _)
Join(parts, sep) ==
    IF parts = <<>> THEN <<>>
    ELSE IF Len(parts) = 1 THEN parts[1]
    ELSE parts[1] \o sep \o Join(Tail(parts), sep)

\* s.split(): the maximal runs of non-whitespace characters, in order.
\* words: the runs closed so far; cur: the run being read.
RECURSIVE SplitWhitespaceFrom(_, _, _, _)
SplitWhitespaceFrom(s, k, words, cur) ==
    IF k > Len(s)
    THEN IF cur = <<>> THEN words ELSE Append(words, cur)
    ELSE IF s[k] \in Whitespace
         THEN SplitWhitespaceFrom(s, k + 1,
                  IF cur = <<>> THEN words ELSE Append(words, cur), <<>>)
         ELSE SplitWhitespaceFrom(s, k + 1, words, Append(cur, s[k]))

SplitWhitespace(s) == SplitWhitespaceFrom(s, 1, <<>>, <<>>)

\* s.split(c) for a one-character separator: one more part than there are
\* separators, empty parts included.
RECURSIVE SplitOnFrom(_, _, _, _, _)
SplitOnFrom(s, c, k, parts, cur) ==
    IF k > Len(s) THEN Append(parts, cur)
    ELSE IF s[k] = c
         THEN SplitOnFrom(s, c, k + 1, Append(parts, cur), <<>>)
         ELSE SplitOnFrom(s, c, k + 1, parts, Append(cur, s[k]))

SplitOn(s, c) == SplitOnFrom(s, c, 1, <<>>, <<>>)

\* s.replace(a, b) for one-character a and b.
ReplaceChar(s, a, b) == [k \in 1..Len(s) |-> IF s[k] = a THEN b ELSE s[k]]

RECURSIVE LStrip(_)
LStrip(s) == IF s # <<>> /\ Head(s) \in Whitespace THEN LStrip(Tail(s)) ELSE s

RECURSIVE RStrip(_)
RStrip(s) ==
    IF s # <<>> /\ s[Len(s)] \in Whitespace
    THEN RStrip(SubSeq(s, 1, Len(s) - 1))
    ELSE s

\* s.strip()
Strip(s) == RStrip(LStrip(s))

(***************************************************************************)
(* clean_text                                                              *)
(***************************************************************************)

\* The line length a line must exceed to be kept (len(line) > 10).
MinLineLen == 10

\* ' '.join(text.split())
CollapseWhitespace(s) == Join(SplitWhitespace(s), <<" ">>)

\* The six replace() calls, in the order of the code.
ReplaceProblematic_NoEmDash(s) ==
    ReplaceChar(ReplaceChar(ReplaceChar(ReplaceChar(ReplaceChar(s,
        "U+2019", "'"), "U+2018", "'"), "U+201C", "QUOT"), "U+201D", "QUOT"),
        "U+2013", "-")

ReplaceProblematic(s) ==
    ReplaceChar(ReplaceChar(ReplaceChar(ReplaceChar(ReplaceChar(ReplaceChar(s,
        "U+2019", "'"), "U+2018", "'"), "U+201C", "QUOT"), "U+201D", "QUOT"),
        "U+2013", "-"), "U+2014", "-")

\* The loop over lines: each line stripped, kept when longer than MinLineLen.
RECURSIVE KeepLongLines(_)
KeepLongLines(lines) ==
    IF lines = <<>> THEN <<>>
    ELSE LET line == Strip(Head(lines))
         IN  IF Len(line) > MinLineLen
             THEN <<line>> \o KeepLongLines(Tail(lines))
             ELSE KeepLongLines(Tail(lines))

CleanText(s) ==
    LET collapsed == CollapseWhitespace(s)
        replaced  == ReplaceProblematic(collapsed)
        lines     == SplitOn(replaced, "\n")
    IN  Join(KeepLongLines(lines), <<" ">>)

(***************************************************************************)
(* split_text_into_chunks                                                  *)
(***************************************************************************)

\* text.replace('. ', '.|'): left to right, without overlaps.
RECURSIVE ReplaceDotSpaceFrom(_, _)
ReplaceDotSpaceFrom(s, k) ==
    IF k > Len(s) THEN <<>>
    ELSE IF k < Len(s) /\ s[k] = "." /\ s[k + 1] = " "
         THEN <<".", "|">> \o ReplaceDotSpaceFrom(s, k + 2)
         ELSE <<s[k]>> \o ReplaceDotSpaceFrom(s, k + 1)

\* sentences = text.replace('. ', '.|').split('|')
Sentences(s) == SplitOn(ReplaceDotSpaceFrom(s, 1), "|")

\* The loop over sentences and the closing of the last chunk.
\* done: the list chunks; cur: current_chunk.
RECURSIVE ChunkLoop(_, _, _, _, _)
ChunkLoop(sentences, k, done, cur, size) ==
    IF k > Len(sentences)
    THEN IF cur # <<>> THEN Append(done, Strip(cur)) ELSE done
    ELSE LET sentence == sentences[k]
         IN  IF Len(cur) + Len(sentence) > size /\ cur # <<>>
             THEN ChunkLoop(sentences, k + 1, Append(done, Strip(cur)),
                            sentence, size)
             ELSE ChunkLoop(sentences, k + 1, done,
                            IF cur # <<>> THEN cur \o <<" ">> \o sentence
                                          ELSE sentence,
                            size)

SplitTextIntoChunks(s, size) == ChunkLoop(Sentences(s), 1, <<>>, <<>>, size)

(***************************************************************************)
(* The conversion pipeline: main, convert, text_to_speech,                 *)
(* merge_audio_files.  File names are built as the f-strings build them,   *)
(* with the book name (pdf_path.stem) fixed to "book".                     *)
(***************************************************************************)

\* The outcomes of self.extract_text_from_pdf(): it raises, it returns "",
\* or it returns some text.
ExtractOutcomes == {"unreadable", "empty", "text"}

\* f"{i:03d}"
Pad3(idx) ==
    IF idx < 10 THEN "00" \o ToString(idx)
    ELSE IF idx < 100 THEN "0" \o ToString(idx)
    ELSE ToString(idx)

\* audio_filename = f"{book_name}_part_{i:03d}.mp3"
AudioFilename_ZeroBased(idx) == "book_part_" \o Pad3(idx - 1) \o ".mp3"

AudioFilename(idx) == "book_part_" \o Pad3(idx) \o ".mp3"

\* merged_filename = f"{book_name}_complete_audiobook.mp3"
MergedFilename == "book_complete_audiobook.mp3"

\* The values convert and merge_audio_files return: None, a Path, a list.
NoFile == [kind |-> "None", path |-> "", files |-> <<>>]
PathResult(p) == [kind |-> "Path", path |-> p, files |-> <<>>]
ListResult(fs) == [kind |-> "list", path |-> "", files |-> fs]

\* The messages of the exceptions that leave convert.
ExtractError == "Error reading PDF file"
NoTextError == "No text could be extracted from the PDF"
NoAudioError == "No audio files were generated"

\* AudioSegment.silent(duration=1000)
SilenceMs == 1000

Segment(file) == [kind |-> "audio", src |-> file, ms |-> 0]
Silence == [kind |-> "silent", src |-> "", ms |-> SilenceMs]

\* The loop of merge_audio_files: combined += audio; combined += silent.
RECURSIVE CombineFrom(_, _, _)
CombineFrom(files, k, acc) ==
    IF k > Len(files) THEN acc
    ELSE CombineFrom(files, k + 1, acc \o <<Segment(files[k]), Silence>>)

\* Whether merge_audio_files reaches combined.export without an exception;
\* ok: no call of the audio backend raised.
MergeExports(files, pydub, ok) == pydub /\ Len(files) > 1 /\ ok

\* The value merge_audio_files returns.
MergeAudioFiles(files, pydub, ok) ==
    IF ~pydub THEN ListResult(files)
    ELSE IF Len(files) <= 1
         THEN (IF files # <<>> THEN PathResult(files[1]) ELSE NoFile)
         ELSE IF ok THEN PathResult(MergedFilename) ELSE ListResult(files)

\* if not audio_files
NoAudioGenerated_Never(files) == FALSE

NoAudioGenerated(files) == files = <<>>

\* if merge_files and len(audio_files) > 1 and PYDUB_AVAILABLE
ShouldMerge_AnyCount(merge, files, pydub) == merge /\ Len(files) > 0 /\ pydub

ShouldMerge(merge, files, pydub) == merge /\ Len(files) > 1 /\ pydub

\* if cleanup_parts and final_file and isinstance(final_file, Path)
CleanupWanted_NoTypeCheck(cleanup, result) ==
    cleanup /\ (result.kind = "Path" \/ result.files # <<>>)

CleanupWanted(cleanup, result) == cleanup /\ result.kind = "Path"

\* final_file = audio_files[0] if len(audio_files) == 1 else audio_files
Unmerged(files) ==
    IF Len(files) = 1 THEN PathResult(files[1]) ELSE ListResult(files)

(***************************************************************************)
(* Bounds of the model.                                                    *)
(***************************************************************************)

MaxPieces == 4      \* pieces a raw text is put together from
MaxTextLen == 6     \* characters of a text handed to the segmenter
MaxChunkSize == 4   \* largest chunk_size tried
MaxChunks == 4      \* chunks handed to text_to_speech

\* What a raw text is put together from: whitespace, a digit, a word of nine
\* letters, and the six typographic characters.
NineLetters == <<"a", "a", "a", "a", "a", "a", "a", "a", "a">>

Pieces ==
    {<<" ">>, <<"\n">>, <<"\t">>, <<"1">>, NineLetters, <<"U+2018">>,
     <<"U+2019">>, <<"U+201C">>, <<"U+201D">>, <<"U+2013">>, <<"U+2014">>}

RECURSIVE RawTextsOf(_)
RawTextsOf(n) ==
    IF n = 0 THEN {<<>>}
    ELSE LET shorter == RawTextsOf(n - 1)
         IN  shorter \cup {t \o p : t \in shorter, p \in Pieces}

\* The texts handed to the segmenter, with the specification's example.
SplitAlphabet == {"A", "B", ".", " ", "|"}

ExampleText == <<"A", ".", " ", "B", ".", " ", "C", ".">>

TextsOf(maxLen) ==
    UNION {[1..n -> SplitAlphabet] : n \in 0..maxLen} \cup {ExampleText}

(***************************************************************************)
(* The state before any operation has run.                                 *)
(***************************************************************************)

CleanIdle == raw_text = <<>> /\ cleaned_text = <<>>

SplitIdle == text = <<>> /\ chunk_size = 1 /\ chunks = <<>>

ConvertIdle ==
    /\ pdf_exists = FALSE
    /\ merge_files = FALSE
    /\ cleanup_parts = FALSE
    /\ PYDUB_AVAILABLE = FALSE
    /\ text_chunks = <<>>
    /\ i = 0
    /\ audio_files = <<>>
    /\ attempts = <<>>
    /\ disk = {}
    /\ final_file = NoFile
    /\ combined = <<>>
    /\ j = 0
    /\ error = ""
    /\ exit_status = -1

(***************************************************************************)
(* clean_text applied to a raw text.                                       *)
(***************************************************************************)

CleanInit ==
    /\ pc = "clean_text"
    /\ raw_text \in RawTextsOf(MaxPieces)
    /\ cleaned_text = <<>>
    /\ SplitIdle
    /\ ConvertIdle

Clean ==
    /\ pc = "clean_text"
    /\ cleaned_text' = CleanText(raw_text)
    /\ pc' = "cleaned"
    /\ UNCHANGED <<raw_text, splitVars, convertVars>>

CleanNext == Clean

SpecClean == CleanInit /\ [][CleanNext]_vars

(***************************************************************************)
(* split_text_into_chunks applied to a text and a chunk size.              *)
(***************************************************************************)

SplitInit ==
    /\ pc = "split_text_into_chunks"
    /\ text \in TextsOf(MaxTextLen)
    /\ chunk_size \in 1..MaxChunkSize
    /\ chunks = <<>>
    /\ CleanIdle
    /\ ConvertIdle

Split ==
    /\ pc = "split_text_into_chunks"
    /\ chunks' = SplitTextIntoChunks(text, chunk_size)
    /\ pc' = "chunked"
    /\ UNCHANGED <<text, chunk_size, cleanVars, convertVars>>

SplitNext == Split

SpecSplit == SplitInit /\ [][SplitNext]_vars

(***************************************************************************)
(* The command line run: main, then convert stage by stage.  What          *)
(* extract_text_from_pdf, clean_text and split_text_into_chunks hand on    *)
(* is any list of up to MaxChunks chunks; the later stages read only its   *)
(* length.                                                                 *)
(***************************************************************************)

ConvertInit ==
    /\ pc = "main"
    /\ pdf_exists \in BOOLEAN
    /\ merge_files \in BOOLEAN
    /\ cleanup_parts \in BOOLEAN
    /\ PYDUB_AVAILABLE \in BOOLEAN
    /\ text_chunks = <<>>
    /\ i = 0
    /\ audio_files = <<>>
    /\ attempts = <<>>
    /\ disk = {}
    /\ final_file = NoFile
    /\ combined = <<>>
    /\ j = 0
    /\ error = ""
    /\ exit_status = -1
    /\ CleanIdle
    /\ SplitIdle

\* main: the check of the input path, then the converter is constructed.
Main ==
    /\ pc = "main"
    /\ IF ~pdf_exists
       THEN pc' = "Exited" /\ exit_status' = 1
       ELSE pc' = "Extracting" /\ UNCHANGED exit_status
    /\ UNCHANGED <<cleanVars, splitVars, pdf_exists, merge_files,
                   cleanup_parts, PYDUB_AVAILABLE, text_chunks, i, audio_files,
                   attempts, disk, final_file, combined, j, error>>

\* Step 1: extract_text_from_pdf and the check of its result.
ExtractText ==
    /\ pc = "Extracting"
    /\ \E outcome \in ExtractOutcomes :
          IF outcome = "unreadable"
          THEN pc' = "Failed" /\ error' = ExtractError
          ELSE IF outcome = "empty"
               THEN pc' = "Failed" /\ error' = NoTextError
               ELSE pc' = "Normalizing" /\ UNCHANGED error
    /\ UNCHANGED <<cleanVars, splitVars, pdf_exists, merge_files,
                   cleanup_parts, PYDUB_AVAILABLE, text_chunks, i, audio_files,
                   attempts, disk, final_file, combined, j, exit_status>>

\* Step 2: clean_text.
Normalize ==
    /\ pc = "Normalizing"
    /\ pc' = "Segmenting"
    /\ UNCHANGED <<cleanVars, splitVars, convertVars>>

\* Step 3: split_text_into_chunks; text_to_speech starts with an empty list.
SegmentText ==
    /\ pc = "Segmenting"
    /\ \E n \in 0..MaxChunks : text_chunks' = [k \in 1..n |-> "chunk"]
    /\ i' = 1
    /\ audio_files' = <<>>
    /\ pc' = "Synthesizing"
    /\ UNCHANGED <<cleanVars, splitVars, pdf_exists, merge_files,
                   cleanup_parts, PYDUB_AVAILABLE, attempts, disk, final_file,
                   combined, j, error, exit_status>>

\* Step 4, one turn of the loop of text_to_speech: the backend saves the
\* audio of chunk i (ok) or raises (the except clause continues).
Synthesize ==
    /\ pc = "Synthesizing"
    /\ i <= Len(text_chunks)
    /\ \E ok \in BOOLEAN :
          /\ attempts' = Append(attempts, [index |-> i, ok |-> ok])
          /\ IF ok
             THEN /\ disk' = disk \cup {AudioFilename(i)}
                  /\ audio_files' = Append(audio_files, AudioFilename(i))
             ELSE UNCHANGED <<disk, audio_files>>
    /\ i' = i + 1
    /\ UNCHANGED <<pc, cleanVars, splitVars, pdf_exists, merge_files,
                   cleanup_parts, PYDUB_AVAILABLE, text_chunks, final_file,
                   combined, j, error, exit_status>>

\* text_to_speech has returned: the check of its result and the choice
\* between merging and returning the parts.
AfterSynthesis ==
    /\ pc = "Synthesizing"
    /\ i > Len(text_chunks)
    /\ IF NoAudioGenerated(audio_files)
       THEN pc' = "Failed" /\ error' = NoAudioError /\ UNCHANGED final_file
       ELSE IF ShouldMerge(merge_files, audio_files, PYDUB_AVAILABLE)
            THEN pc' = "Assembling" /\ UNCHANGED <<error, final_file>>
            ELSE /\ final_file' = Unmerged(audio_files)
                 /\ pc' = "Done"
                 /\ UNCHANGED error
    /\ UNCHANGED <<cleanVars, splitVars, pdf_exists, merge_files,
                   cleanup_parts, PYDUB_AVAILABLE, text_chunks, i, audio_files,
                   attempts, disk, combined, j, exit_status>>

\* Step 5: merge_audio_files and the check that starts the cleanup.
Assemble ==
    /\ pc = "Assembling"
    /\ \E ok \in BOOLEAN :
          LET result == MergeAudioFiles(audio_files, PYDUB_AVAILABLE, ok)
          IN  /\ final_file' = result
              /\ IF MergeExports(audio_files, PYDUB_AVAILABLE, ok)
                 THEN /\ combined' = CombineFrom(audio_files, 1, <<>>)
                      /\ disk' = disk \cup {MergedFilename}
                 ELSE UNCHANGED <<combined, disk>>
              /\ IF CleanupWanted(cleanup_parts, result)
                 THEN pc' = "CleaningUp" /\ j' = 1
                 ELSE pc' = "Done" /\ UNCHANGED j
    /\ UNCHANGED <<cleanVars, splitVars, pdf_exists, merge_files,
                   cleanup_parts, PYDUB_AVAILABLE, text_chunks, i, audio_files,
                   attempts, error, exit_status>>

\* One turn of the cleanup loop: audio_file.unlink() deletes the file or
\* raises (the except clause logs a warning).
Cleanup ==
    /\ pc = "CleaningUp"
    /\ j <= Len(audio_files)
    /\ \E ok \in BOOLEAN :
          disk' = IF ok THEN disk \ {audio_files[j]} ELSE disk
    /\ j' = j + 1
    /\ UNCHANGED <<pc, cleanVars, splitVars, pdf_exists, merge_files,
                   cleanup_parts, PYDUB_AVAILABLE, text_chunks, i, audio_files,
                   attempts, final_file, combined, error, exit_status>>

CleanupDone ==
    /\ pc = "CleaningUp"
    /\ j > Len(audio_files)
    /\ pc' = "Done"
    /\ UNCHANGED <<cleanVars, splitVars, convertVars>>

\* convert returned: main prints the result and the process ends.
ExitOk ==
    /\ pc = "Done"
    /\ pc' = "Exited"
    /\ exit_status' = 0
    /\ UNCHANGED <<cleanVars, splitVars, pdf_exists, merge_files,
                   cleanup_parts, PYDUB_AVAILABLE, text_chunks, i, audio_files,
                   attempts, disk, final_file, combined, j, error>>

\* convert raised: main prints the error and calls sys.exit(1).
ExitError ==
    /\ pc = "Failed"
    /\ pc' = "Exited"
    /\ exit_status' = 1
    /\ UNCHANGED <<cleanVars, splitVars, pdf_exists, merge_files,
                   cleanup_parts, PYDUB_AVAILABLE, text_chunks, i, audio_files,
                   attempts, disk, final_file, combined, j, error>>

ConvertNext ==
    \/ Main
    \/ ExtractText
    \/ Normalize
    \/ SegmentText
    \/ Synthesize
    \/ AfterSynthesis
    \/ Assemble
    \/ Cleanup
    \/ CleanupDone
    \/ ExitOk
    \/ ExitError

Spec == ConvertInit /\ [][ConvertNext]_vars

(***************************************************************************)
(* The vocabulary of the properties.                                       *)
(***************************************************************************)

Range(s) == {s[k] : k \in 1..Len(s)}

\* A text as clean_text delivers it: single spaces between words, no other
\* whitespace, none at either end.
Normalized(s) == s = CollapseWhitespace(s)

\* The sentence fragments of a text: the text cut after every ". ", the
\* period kept and the space dropped; empty fragments are not counted.
RECURSIVE FragmentsFrom(_, _, _, _)
FragmentsFrom(s, k, frags, cur) ==
    IF k > Len(s) THEN Append(frags, cur)
    ELSE IF k < Len(s) /\ s[k] = "." /\ s[k + 1] = " "
         THEN FragmentsFrom(s, k + 2, Append(frags, Append(cur, ".")), <<>>)
         ELSE FragmentsFrom(s, k + 1, frags, Append(cur, s[k]))

NonEmpty(s) == s # <<>>

DotSpaceFragments(s) == SelectSeq(FragmentsFrom(s, 1, <<>>, <<>>), NonEmpty)

\* The fragments of the chunks, chunk after chunk.
RECURSIVE FragmentsOfChunks(_)
FragmentsOfChunks(cs) ==
    IF cs = <<>> THEN <<>>
    ELSE DotSpaceFragments(Head(cs)) \o FragmentsOfChunks(Tail(cs))

TypographicChars ==
    {"U+2018", "U+2019", "U+201C", "U+201D", "U+2013", "U+2014"}

\* The logical lines of a raw text, each with its whitespace collapsed and
\* its typographic characters replaced.
RECURSIVE NormalizedLines(_)
NormalizedLines(lines) ==
    IF lines = <<>> THEN <<>>
    ELSE <<ReplaceProblematic(CollapseWhitespace(Head(lines)))>>
             \o NormalizedLines(Tail(lines))

LogicalLines(raw) == NormalizedLines(SplitOn(raw, "\n"))

AtLeastMinLen(line) == Len(line) >= MinLineLen

\* Segments in order with one silence between each two neighbours.
RECURSIVE Interleaved(_)
Interleaved(files) ==
    IF files = <<>> THEN <<>>
    ELSE IF Len(files) = 1 THEN <<Segment(files[1])>>
    ELSE <<Segment(files[1]), Silence>> \o Interleaved(Tail(files))

\* text_to_speech has gone through its whole loop.
SynthesisReturned == i >= 1 /\ i > Len(text_chunks)

\* The names the parts are expected to carry, by chunk index.
ExpectedPartName ==
    <<"book_part_001.mp3", "book_part_002.mp3", "book_part_003.mp3",
      "book_part_004.mp3", "book_part_005.mp3", "book_part_006.mp3">>

RECURSIVE NamesOfSuccesses(_)
NamesOfSuccesses(log) ==
    IF log = <<>> THEN <<>>
    ELSE (IF Head(log).ok THEN <<ExpectedPartName[Head(log).index]>> ELSE <<>>)
             \o NamesOfSuccesses(Tail(log))

(***************************************************************************)
(* split_text_into_chunks: C1, C5, C6 (under SpecSplit).                   *)
(***************************************************************************)

\* C1: every chunk is at most chunk_size characters long unless it is one
\* single fragment that is itself longer, and "A. B. C." with chunk_size 4
\* gives the three chunks "A.", "B.", "C.".  Stated for the texts clean_text
\* can deliver that hold no "|".
C1_ChunksWithinLimit ==
    (pc = "chunked" /\ Normalized(text) /\ "|" \notin Range(text)) =>
        /\ \A k \in 1..Len(chunks) :
              \/ Len(chunks[k]) <= chunk_size
              \/ chunks[k] \in Range(DotSpaceFragments(text))
        /\ (text = ExampleText /\ chunk_size = 4) =>
              chunks = << <<"A", ".">>, <<"B", ".">>, <<"C", ".">> >>

\* C5: the chunks, read in order, hold exactly the sentence fragments of the
\* text: each once, unaltered, in the original order.  Stated for the texts
\* clean_text can deliver.
C5_ChunksReproduceFragments ==
    (pc = "chunked" /\ Normalized(text)) =>
        FragmentsOfChunks(chunks) = DotSpaceFragments(text)

\* C6: a fragment longer than chunk_size is returned whole inside one chunk,
\* and a text that is one sentence longer than chunk_size gives exactly one
\* chunk, equal to it.  Stated for the texts clean_text can deliver.
C6_OversizedFragmentWhole ==
    (pc = "chunked" /\ Normalized(text)) =>
        LET frags == DotSpaceFragments(text)
        IN  /\ \A n \in 1..Len(frags) :
                  Len(frags[n]) > chunk_size =>
                      \E k \in 1..Len(chunks) :
                          frags[n] \in Range(DotSpaceFragments(chunks[k]))
            /\ (Len(frags) = 1 /\ Len(text) > chunk_size) =>
                  chunks = <<text>>

(***************************************************************************)
(* clean_text: C9, C10 (under SpecClean).                                  *)
(***************************************************************************)

\* C9: each logical line of the raw text is judged on its own: the lines
\* shorter than 10 characters are dropped, the others are kept and rejoined
\* in order with single spaces.  Stated for the raw texts none of whose
\* lines is exactly 10 characters long.
C9_LinesJudgedSeparately ==
    LET lines == LogicalLines(raw_text)
    IN  (pc = "cleaned" /\ \A n \in 1..Len(lines) : Len(lines[n]) # MinLineLen)
            => cleaned_text = Join(SelectSeq(lines, AtLeastMinLen), <<" ">>)

\* C10: the cleaned text has no two spaces in a row, no tab, no line break,
\* no whitespace at either end and no typographic quote or dash; the empty
\* raw text gives the empty text.
C10_CleanedTextNormal ==
    pc = "cleaned" =>
        /\ \A k \in 1..(Len(cleaned_text) - 1) :
              ~(cleaned_text[k] = " " /\ cleaned_text[k + 1] = " ")
        /\ Range(cleaned_text) \cap {"\t", "\n"} = {}
        /\ cleaned_text # <<>> =>
              /\ cleaned_text[1] \notin Whitespace
              /\ cleaned_text[Len(cleaned_text)] \notin Whitespace
        /\ Range(cleaned_text) \cap TypographicChars = {}
        /\ raw_text = <<>> => cleaned_text = <<>>

\* C10, its case: a raw text with a run of whitespace and a typographic
\* character whose cleaned text is not empty.
C10_Witness ==
    /\ pc = "cleaned"
    /\ cleaned_text # <<>>
    /\ Range(raw_text) \cap TypographicChars # {}
    /\ \E k \in 1..(Len(raw_text) - 1) :
          raw_text[k] \in Whitespace /\ raw_text[k + 1] \in Whitespace

(***************************************************************************)
(* The pipeline: C2, C3, C4, C7, C8 (under Spec).                          *)
(***************************************************************************)

\* Every chunk has been tried and none gave an audio file.
AllSynthesisFailed == SynthesisReturned /\ audio_files = <<>>

\* C2: when no chunk gives an audio file, convert raises "No audio files
\* were generated" straight after synthesis: it never assembles, cleans up
\* or finishes, no merged file is written, it returns nothing, and the
\* process exits with status 1.
C2_TotalFailureFails ==
    /\ [](AllSynthesisFailed =>
            /\ pc \in {"Synthesizing", "Failed", "Exited"}
            /\ pc = "Failed" => error = NoAudioError
            /\ pc = "Exited" => exit_status = 1
            /\ MergedFilename \notin disk
            /\ final_file = NoFile)
    /\ [][(AllSynthesisFailed /\ pc = "Synthesizing") => pc' = "Failed"]_vars

\* C2, its case: several chunks, all tried, all failed, the process exited.
C2_Witness ==
    /\ pc = "Exited"
    /\ Len(text_chunks) >= 2
    /\ Len(attempts) = Len(text_chunks)
    /\ audio_files = <<>>
    /\ error = NoAudioError

\* C3: the backend is called for the chunks 1, 2, ... in this order, once
\* each, whatever failed before; when text_to_speech returns every chunk has
\* been tried; and audio_files is the list of the parts that succeeded, in
\* index order, each named after the index of its chunk and saved on disk.
C3_EveryChunkTriedOnce ==
    /\ Len(attempts) = (IF i = 0 THEN 0 ELSE i - 1)
    /\ \A k \in 1..Len(attempts) : attempts[k].index = k
    /\ SynthesisReturned => Len(attempts) = Len(text_chunks)
    /\ audio_files = NamesOfSuccesses(attempts)
    /\ pc \in {"Synthesizing", "Assembling"} => Range(audio_files) \subseteq disk

\* C3, its case: a failure followed by a success, so the returned list has a
\* gap: its first entry is the part of a later chunk.
C3_Witness ==
    /\ SynthesisReturned
    /\ Len(attempts) >= 3
    /\ ~attempts[1].ok
    /\ attempts[2].ok
    /\ ~attempts[3].ok
    /\ audio_files[1] = "book_part_002.mp3"

\* The run is over (or about to exit) and no merged file was written:
\* assembly was skipped or the merge failed.
FinishedUnmerged ==
    /\ pc \in {"Done", "Exited"}
    /\ audio_files # <<>>
    /\ MergedFilename \notin disk

\* C4 as amended: a part is deleted only when the merged file was written
\* and cleanup_parts is true; a run whose synthesis gave a file never fails;
\* and a run that ends without a merged file returns the parts unmerged -
\* the list of them, or the file itself when there is exactly one - with
\* every part still on disk, and exits with status 0.
C4_PartsKeptUnlessMerged ==
    /\ [](FinishedUnmerged =>
            /\ IF Len(audio_files) = 1
               THEN final_file = PathResult(audio_files[1])
               ELSE final_file = ListResult(audio_files)
            /\ Range(audio_files) \subseteq disk
            /\ error = ""
            /\ pc = "Exited" => exit_status = 0)
    /\ []((SynthesisReturned /\ audio_files # <<>>) =>
            (pc # "Failed" /\ error = ""))
    /\ [][(disk \subseteq disk') \/ (MergedFilename \in disk /\ cleanup_parts)]_vars

\* C4, its case: the merge was requested with cleanup, the backend failed,
\* and the run finished with all parts in place.
C4_Witness ==
    /\ FinishedUnmerged
    /\ merge_files
    /\ cleanup_parts
    /\ PYDUB_AVAILABLE
    /\ Len(audio_files) >= 2
    /\ final_file = ListResult(audio_files)

\* C4 as stated: a run that ends without a merged file returns the
\* sequence of the parts, all of them still on disk.
C4_AsStated ==
    FinishedUnmerged =>
        /\ final_file = ListResult(audio_files)
        /\ Range(audio_files) \subseteq disk

\* C7: the merged audio is the segments in list order with one silence of
\* one second between each two neighbours and nowhere else.
C7_SilenceOnlyBetween ==
    MergedFilename \in disk => combined = Interleaved(audio_files)

\* C8: with at least one part, convert leaves Synthesizing for Assembling
\* exactly when merge_files is true, more than one chunk succeeded and the
\* merge backend is there, and otherwise for Done with the part(s) as its
\* result; it enters CleaningUp only from Assembling, with the merged file
\* written and cleanup_parts true.
C8_StageTransitions ==
    [][/\ (pc = "Synthesizing" /\ pc' # "Synthesizing" /\ audio_files # <<>>) =>
            /\ pc' \in {"Assembling", "Done"}
            /\ pc' = "Assembling" <=>
                  (merge_files /\ Len(audio_files) > 1 /\ PYDUB_AVAILABLE)
            /\ pc' = "Done" =>
                  /\ final_file'.kind \in {"Path", "list"}
                  /\ final_file'.kind = "Path" =>
                        audio_files = <<final_file'.path>>
                  /\ final_file'.kind = "list" =>
                        audio_files = final_file'.files
       /\ (pc # "CleaningUp" /\ pc' = "CleaningUp") =>
            /\ pc = "Assembling"
            /\ MergedFilename \in disk'
            /\ final_file' = PathResult(MergedFilename)
            /\ cleanup_parts
       /\ (pc = "Assembling" /\ pc' = "Done") =>
            ~(cleanup_parts /\ MergedFilename \in disk')
      ]_vars

\* C8, its case: the run is in Assembling.
C8_Witness ==
    /\ pc = "Assembling"
    /\ merge_files
    /\ PYDUB_AVAILABLE
    /\ Len(audio_files) = 2
    /\ Len(text_chunks) = 3

====
